---- MODULE Spec2Model ----
(***************************************************************************)
(* Model of shifter_pandas/bp.py: BPDatasource.metadata() (sheet layout    *)
(* discovery) and BPDatasource.datasource() (row materialisation with      *)
(* filters, unit coherence and the Wikidata enrichment join).              *)
(*                                                                         *)
(* A run is one public call on one workbook.  The workbook and the call's  *)
(* arguments are fixed by the initial state; the actions are the steps of  *)
(* the two methods, one per loop iteration.                                 *)
(***************************************************************************)
EXTENDS Integers, Sequences, FiniteSets, TLC

(***************************************************************************)
(* Bounds of the model.                                                    *)
(***************************************************************************)
\* Rows of the region column (column 1, from row 5 down) that a workbook of
\* the region family fills freely; every row below reads as empty.
RegionRows == 8
\* Columns (from column 2 rightward) whose row-2 marker and row-3 label a
\* workbook of the year family fills freely; columns beyond read as empty.
YearCols == 4
\* The year scan has no bound of its own: the model stops following it
\* once index exceeds YearCols + 1 + ScanSlack.
ScanSlack == 3
\* Region rows of the data block whose cells a workbook of the cell family
\* fills freely (the block has two year columns).
BlockRows == 2
\* Sheets of a workbook of the sheet family.
NumSheets == 3

(***************************************************************************)
(* Cell values.  openpyxl gives None, int, float or str; every value is a  *)
(* record of the same shape.  Numbers are kept in hundredths so that the   *)
(* product with 3.6 stays exact.                                           *)
(***************************************************************************)
None == [t |-> "none", n |-> 0, s |-> ""]
PyInt(k) == [t |-> "int", n |-> 100 * k, s |-> ""]
\* a float given in tenths: PyFloat(25) is 2.5
PyFloat(d) == [t |-> "float", n |-> 10 * d, s |-> ""]
PyStr(x) == [t |-> "str", n |-> 0, s |-> x]

\* isinstance(value, int)
IsInt(v) == v.t = "int"
\* isinstance(value, int) or isinstance(value, float)
IsNumber(v) == v.t \in {"int", "float"}
\* Python's ==, as `in` applies it to the members of a list
PyEq(a, b) ==
    IF IsNumber(a) /\ IsNumber(b) THEN a.n = b.n
    ELSE a.t = b.t /\ a.s = b.s
\* x in list
PyIn(x, list) == \E i \in 1..Len(list) : PyEq(x, list[i])

(***************************************************************************)
(* Strings.                                                                *)
(***************************************************************************)
endswith(x, suffix) ==
    /\ Len(x) >= Len(suffix)
    /\ SubSeq(x, Len(x) - Len(suffix) + 1, Len(x)) = suffix
startswith(x, prefix) ==
    /\ Len(x) >= Len(prefix)
    /\ SubSeq(x, 1, Len(prefix)) = prefix
Whitespace == {" ", "\t", "\n", "\r"}
RECURSIVE lstrip(_)
lstrip(x) ==
    IF Len(x) > 0 /\ SubSeq(x, 1, 1) \in Whitespace
    THEN lstrip(SubSeq(x, 2, Len(x)))
    ELSE x
RECURSIVE rstrip(_)
rstrip(x) ==
    IF Len(x) > 0 /\ SubSeq(x, Len(x), Len(x)) \in Whitespace
    THEN rstrip(SubSeq(x, 1, Len(x) - 1))
    ELSE x
\* str.strip()
strip(x) == rstrip(lstrip(x))

(***************************************************************************)
(* The workbook: a sequence of sheets, each a name and a grid.  A cell     *)
(* outside the stored grid reads as None, as openpyxl's cell() gives.      *)
(***************************************************************************)
cell(ws, row, column) ==
    IF <<row, column>> \in DOMAIN ws.cells THEN ws.cells[<<row, column>>] ELSE None

\* A sheet in the publisher's layout: unit at (3, 1), markers on row 2 and
\* year labels on row 3 from column 2, region labels in column 1 and the
\* data block from row 5.  markers and labels are sequences indexed from
\* column 2, rlabels and data from row 5.
MkSheet(name, unit, markers, labels, rlabels, data) ==
    LET ncols == 1 + (IF Len(markers) > Len(labels) THEN Len(markers) ELSE Len(labels))
        nrows == 4 + Len(rlabels)
    IN  [name |-> name,
         cells |-> [rc \in (1..nrows) \X (1..ncols) |->
             LET r == rc[1]
                 c == rc[2]
             IN  IF r = 3 /\ c = 1 THEN unit
                 ELSE IF r = 2 /\ c >= 2 /\ c - 1 <= Len(markers) THEN markers[c - 1]
                 ELSE IF r = 3 /\ c >= 2 /\ c - 1 <= Len(labels) THEN labels[c - 1]
                 ELSE IF r >= 5 /\ c = 1 THEN rlabels[r - 4]
                 ELSE IF r >= 5 /\ c >= 2 /\ c - 1 <= Len(data[r - 4]) THEN data[r - 4][c - 1]
                 ELSE None]]

VARIABLES
    xlsx,            \* self.xlsx: the workbook
    args,            \* the public call and its arguments
    pc,              \* position in the call
    outcome,         \* what the public call gave its caller
    metadata,        \* metadata(): the list being built
    type_index,      \* metadata(): the sheet loop's index (from 0)
    type_value,      \* metadata(): the sheet's label
    years,           \* metadata(): the year axis being built
    regions,         \* metadata(): the region axis being built
    index,           \* metadata(): the scans' column or row index
    nb_empty_cells,  \* metadata(): the region scan's counter
    columns,         \* datasource(): the table's declared columns
    wikidata,        \* datasource(): whether the enrichment join runs
    type_,           \* datasource(): position in the metadata list
    year,            \* datasource(): position in the sheet's years
    region,          \* datasource(): position in the sheet's regions
    data_frame,      \* datasource(): the rows appended so far
    origin,          \* history: where each row of data_frame came from
    lookups          \* history: the keys passed to wdds.get_region

vars == <<xlsx, args, pc, outcome, metadata, type_index, type_value, years, regions,
          index, nb_empty_cells, columns, wikidata, type_, year, region, data_frame, origin,
          lookups>>

meta_vars == <<metadata, type_index, type_value, years, regions, index, nb_empty_cells>>
ds_vars == <<columns, wikidata, type_, year, region, data_frame, origin, lookups>>

\* The sheet the metadata loop is at.
worksheet == xlsx[type_index + 1]

(***************************************************************************)
(* metadata()                                                              *)
(***************************************************************************)
\* Lines 53-58: the sheet name without its unit suffix; the three tests run
\* one after the other, each on the result of the one before.
sheet_label(name) ==
    LET a == IF endswith(name, " - TWh") THEN SubSeq(name, 1, Len(name) - 6) ELSE name
        b == IF endswith(a, " - EJ") THEN SubSeq(a, 1, Len(a) - 5) ELSE a
    IN  IF endswith(b, " - PJ") THEN SubSeq(b, 1, Len(b) - 5) ELSE b

\* Line 60: the sheet is a data sheet.
qualifies(ws) == IsInt(cell(ws, 3, 2))

\* The label cell itself taken for the marker.
marker_in_label_row(ws, column) == cell(ws, 3, column)
\* Line 66: the cell above the year label.
marker_cell(ws, column) == cell(ws, 2, column)

\* The break after the append: the marked column joins the axis.
years_stop_after(ws, axis, column) ==
    Append(axis, [label |-> cell(ws, 3, column), index |-> column])
\* Lines 66-68: the year axis as the scan leaves it when it meets a marker
\* at `column`: the break comes before the append.
years_at_break(ws, axis, column) == axis

\* Lines 77 and 81: the row's label counts, and the scan ends.
has_label(value) == value.t # "none"
region_scan_ends(count) == count > 5

\* A missing unit taken for the empty text.
unit_text_lenient(ws) ==
    LET value == cell(ws, 3, 1)
    IN  [raised |-> FALSE, unit |-> IF value.t = "str" THEN strip(value.s) ELSE ""]
\* Line 88: cell(3, 1).value.strip(); a value without strip() raises.
unit_text(ws) ==
    LET value == cell(ws, 3, 1)
    IN  IF value.t = "str"
        THEN [raised |-> FALSE, unit |-> strip(value.s)]
        ELSE [raised |-> TRUE, unit |-> ""]

\* Lines 52-63: one turn of the sheet loop, up to the start of the year scan.
metadata_for ==
    /\ pc = "for_sheet"
    /\ type_index < Len(xlsx)
    /\ type_value' = sheet_label(worksheet.name)
    /\ IF qualifies(worksheet)
       THEN /\ years' = <<>>
            /\ index' = 2
            /\ pc' = "years"
            /\ UNCHANGED type_index
       ELSE /\ type_index' = type_index + 1
            /\ UNCHANGED <<years, index, pc>>
    /\ UNCHANGED <<xlsx, args, outcome, metadata, regions, nb_empty_cells>>
    /\ UNCHANGED ds_vars

\* Lines 64-69 (and 72-74 on leaving): one turn of the year scan.  The loop
\* has no bound; the guard on index is the model's.
year_scan ==
    /\ pc = "years"
    /\ index <= YearCols + 1 + ScanSlack
    /\ IF marker_cell(worksheet, index) # None
       THEN /\ years' = years_at_break(worksheet, years, index)
            /\ regions' = <<>>
            /\ index' = 5
            /\ nb_empty_cells' = 0
            /\ pc' = "regions"
       ELSE /\ years' = Append(years, [label |-> cell(worksheet, 3, index), index |-> index])
            /\ index' = index + 1
            /\ UNCHANGED <<regions, nb_empty_cells, pc>>
    /\ UNCHANGED <<xlsx, args, outcome, metadata, type_index, type_value>>
    /\ UNCHANGED ds_vars

\* Lines 75-83: one turn of the region scan.  A labelled row resets the
\* counter (line 78); line 80 then adds one on every row, labelled or not.
region_scan ==
    /\ pc = "regions"
    /\ LET value == cell(worksheet, index, 1)
           count == (IF has_label(value) THEN 0 ELSE nb_empty_cells) + 1
       IN  /\ regions' = IF has_label(value)
                         THEN Append(regions, [label |-> value, index |-> index])
                         ELSE regions
           /\ nb_empty_cells' = count
           /\ IF region_scan_ends(count)
              THEN /\ pc' = "append"
                   /\ UNCHANGED index
              ELSE /\ index' = index + 1
                   /\ UNCHANGED pc
    /\ UNCHANGED <<xlsx, args, outcome, metadata, type_index, type_value, years>>
    /\ UNCHANGED ds_vars

\* Lines 84-92: the sheet's record joins the list, or the unit cell's
\* missing strip() ends the call.
metadata_append ==
    /\ pc = "append"
    /\ LET u == unit_text(worksheet)
       IN  IF u.raised
           THEN /\ pc' = "done"
                /\ outcome' = [status |-> "raised", value |-> <<>>]
                /\ UNCHANGED <<metadata, type_index>>
           ELSE /\ metadata' = Append(metadata,
                        [label |-> type_value, index |-> type_index, unit |-> u.unit,
                         years |-> years, regions |-> regions])
                /\ type_index' = type_index + 1
                /\ pc' = "for_sheet"
                /\ UNCHANGED outcome
    /\ UNCHANGED <<xlsx, args, type_value, years, regions, index, nb_empty_cells>>
    /\ UNCHANGED ds_vars

\* Line 94, and line 128 when datasource() made the call.
metadata_return ==
    /\ pc = "for_sheet"
    /\ type_index = Len(xlsx)
    /\ IF args.op = "metadata"
       THEN /\ pc' = "done"
            /\ outcome' = [status |-> "returned", value |-> metadata]
            /\ UNCHANGED type_
       ELSE /\ pc' = "ds_type"
            /\ type_' = 1
            /\ UNCHANGED outcome
    /\ UNCHANGED <<xlsx, args>>
    /\ UNCHANGED meta_vars
    /\ UNCHANGED <<columns, wikidata, year, region, data_frame, origin, lookups>>

(***************************************************************************)
(* The Wikidata collaborator (shifter_pandas.wikidata_ and                 *)
(* standardize_property), as the calls in datasource() use it.            *)
(***************************************************************************)
\* get_region(name): the entity of a region name, or None.
get_region(name) ==
    IF name = "World" THEN [found |-> TRUE, id |-> "Q16502", type |-> "world"]
    ELSE IF name = "Europe" THEN [found |-> TRUE, id |-> "Q46", type |-> "continent"]
    ELSE [found |-> FALSE, id |-> "", type |-> ""]

\* "Wikidata" + standardize_property(get_property_name(property))
property_column(property) ==
    IF property = "P1082" THEN "WikidataPopulation" ELSE "Wikidata" \o property

\* get_item(id, with_name, with_id, properties, prefix="Wikidata"): one entry
\* per requested field, every one None when the id is None.
RECURSIVE property_items(_, _)
property_items(found, properties) ==
    IF properties = <<>> THEN [k \in {} |-> None]
    ELSE (property_column(Head(properties)) :> (IF found THEN PyInt(1) ELSE None))
         @@ property_items(found, Tail(properties))
get_item(found, id, with_name, with_id, properties) ==
    (IF with_id THEN "WikidataId" :> (IF found THEN PyStr(id) ELSE None)
     ELSE [k \in {} |-> None])
    @@ (IF with_name THEN "WikidataName" :> (IF found THEN PyStr("name of " \o id) ELSE None)
        ELSE [k \in {} |-> None])
    @@ property_items(found, properties)

(***************************************************************************)
(* datasource()                                                            *)
(***************************************************************************)
\* Line 113: wikidata = wikidata_id or wikidata_name or wikidata_properties,
\* taken for its truth.
wants_wikidata(a) == a.wikidata_id \/ a.wikidata_name \/ a.wikidata_properties # <<>>

\* Lines 115-126: the declared columns.
RECURSIVE property_columns(_)
property_columns(properties) ==
    IF properties = <<>> THEN <<>>
    ELSE <<property_column(Head(properties))>> \o property_columns(Tail(properties))
declared_columns(a) ==
    <<"Value", "Type", "Unit", "TypeUnit", "Year", "Region">>
    \o (IF wants_wikidata(a)
        THEN (IF a.wikidata_id THEN <<"WikidataId">> ELSE <<>>)
             \o (IF a.wikidata_name THEN <<"WikidataName">> ELSE <<>>)
             \o (IF a.wikidata_type THEN <<"WikidataType">> ELSE <<>>)
             \o property_columns(a.wikidata_properties)
        ELSE <<>>)

\* An optional list argument: None, or a list.
NoFilter == [is_none |-> TRUE, items |-> <<>>]
Filter(items) == [is_none |-> FALSE, items |-> items]
\* `f is not None and x not in f`
rejects(f, x) == ~f.is_none /\ ~PyIn(x, f.items)

\* Every non-empty cell taken for an observation.
is_not_empty(value) == value.t # "none"
\* Line 146: the cell holds an observation.
is_observation(value) == IsNumber(value)

\* Line 149: the unit datasource() works with.
declared_unit(ws) == cell(ws, 3, 1)

\* The unit filter on the unit the row is output with.
unit_rejected_after(f, unit) ==
    rejects(f, IF unit = PyStr("Terawatt-hours") \/ unit = PyStr("Exajoules")
               THEN PyStr("Petajoules") ELSE unit)
\* Line 151: the unit filter, on the unit as read.
unit_rejected(f, unit) == rejects(f, unit)

\* Line 143: the region filter.
region_rejected(f, label) == rejects(f, label)

\* The number of "%" in a string.
RECURSIVE count_percent(_)
count_percent(x) ==
    IF Len(x) = 0 THEN 0
    ELSE (IF SubSeq(x, 1, 1) = "%" THEN 1 ELSE 0) + count_percent(SubSeq(x, 2, Len(x)))
\* Some place of the string starts with `part`.
contains(x, part) == \E i \in 1..Len(x) : startswith(SubSeq(x, i, Len(x)), part)

\* Line 140: year["label"] % years_factor != 0.  "keep": the test is false;
\* "skip": it is true; "raise": the % raises.  A number takes the remainder
\* (ZeroDivisionError on 0); None has no %; a str is formatted with the
\* factor as its one argument, which raises unless the text holds exactly one
\* conversion (of the plain ones, %d %i %s), and then gives a str, never 0.
factor_test(label, factor) ==
    IF IsNumber(label)
    THEN IF factor = 0 THEN "raise"
         ELSE IF label.n % (100 * (IF factor < 0 THEN -factor ELSE factor)) # 0 THEN "skip"
         ELSE "keep"
    ELSE IF label.t = "str"
    THEN IF /\ count_percent(label.s) = 1
            /\ \E conv \in {"%d", "%i", "%s"} : contains(label.s, conv)
         THEN "skip"
         ELSE "raise"
    ELSE "raise"

\* Lines 155 and 158: the products, in hundredths (int * 3.6 is a float).
times_3_6(value) == [t |-> "float", n |-> (value.n * 36) \div 10, s |-> ""]
times_1000(value) == [t |-> value.t, n |-> value.n * 1000, s |-> ""]

\* The first test leaving a unit that the second converts again.
coherent_twice(value, unit) ==
    LET a == IF unit = PyStr("Terawatt-hours")
             THEN <<times_3_6(value), PyStr("Exajoules")>>
             ELSE <<value, unit>>
        b == IF a[2] = PyStr("Exajoules")
             THEN <<times_1000(a[1]), PyStr("Petajoules")>>
             ELSE a
    IN  IF b[2] = PyStr("Exajoules (input-equivalent)")
        THEN <<times_1000(b[1]), PyStr("Petajoules (input-equivalent)")>>
        ELSE b
\* Lines 154-162: the three tests run one after the other, each on the unit
\* the one before left.
coherent(value, unit) ==
    LET a == IF unit = PyStr("Terawatt-hours")
             THEN <<times_3_6(value), PyStr("Petajoules")>>
             ELSE <<value, unit>>
        b == IF a[2] = PyStr("Exajoules")
             THEN <<times_1000(a[1]), PyStr("Petajoules")>>
             ELSE a
    IN  IF b[2] = PyStr("Exajoules (input-equivalent)")
        THEN <<times_1000(b[1]), PyStr("Petajoules (input-equivalent)")>>
        ELSE b

\* Lines 174-175: the key of the region lookup.
region_key(label) == IF startswith(label, "Total ") THEN SubSeq(label, 7, Len(label)) ELSE label

\* The metadata record, year entry and region entry the loops are at.
this_type == metadata[type_]
this_year == this_type.years[year]
this_region == this_type.regions[region]
\* self.xlsx.worksheets[type_index] of lines 145 and 149
this_sheet == xlsx[this_type.index + 1]

\* Lines 111-127: the columns and the empty table; then line 128 calls
\* metadata().
datasource_begin ==
    /\ pc = "ds_begin"
    /\ wikidata' = wants_wikidata(args)
    /\ columns' = declared_columns(args)
    /\ data_frame' = <<>>
    /\ pc' = "for_sheet"
    /\ UNCHANGED <<xlsx, args, outcome, type_, year, region, origin, lookups>>
    /\ UNCHANGED meta_vars

\* Lines 128-135: one turn of the loop over the metadata.
datasource_type ==
    /\ pc = "ds_type"
    /\ type_ <= Len(metadata)
    /\ IF rejects(args.types_filter, PyStr(this_type.label))
       THEN /\ type_' = type_ + 1
            /\ UNCHANGED <<year, pc>>
       ELSE /\ year' = 1
            /\ pc' = "ds_year"
            /\ UNCHANGED type_
    /\ UNCHANGED <<xlsx, args, outcome, columns, wikidata, region, data_frame, origin, lookups>>
    /\ UNCHANGED meta_vars

\* Lines 137-141: one turn of the loop over the years; the loop's end goes
\* on to the next sheet.
datasource_year ==
    /\ pc = "ds_year"
    /\ IF year > Len(this_type.years)
       THEN /\ type_' = type_ + 1
            /\ pc' = "ds_type"
            /\ UNCHANGED <<year, region, outcome>>
       ELSE IF rejects(args.years_filter, this_year.label)
       THEN /\ year' = year + 1
            /\ UNCHANGED <<type_, region, pc, outcome>>
       ELSE IF args.years_factor.is_none \/ factor_test(this_year.label, args.years_factor.n) = "keep"
       THEN /\ region' = 1
            /\ pc' = "ds_region"
            /\ UNCHANGED <<type_, year, outcome>>
       ELSE IF factor_test(this_year.label, args.years_factor.n) = "skip"
       THEN /\ year' = year + 1
            /\ UNCHANGED <<type_, region, pc, outcome>>
       ELSE /\ pc' = "done"
            /\ outcome' = [status |-> "raised", value |-> <<>>]
            /\ UNCHANGED <<type_, year, region>>
    /\ UNCHANGED <<xlsx, args, columns, wikidata, data_frame, origin, lookups>>
    /\ UNCHANGED meta_vars

\* Lines 142-187: one turn of the loop over the regions; the loop's end goes
\* on to the next year.
datasource_region ==
    /\ pc = "ds_region"
    /\ IF region > Len(this_type.regions)
       THEN /\ year' = year + 1
            /\ pc' = "ds_year"
            /\ UNCHANGED <<region, data_frame, origin, lookups, outcome>>
       ELSE LET value == cell(this_sheet, this_region.index, this_year.index)
                unit == declared_unit(this_sheet)
                out == IF args.coherent_units THEN coherent(value, unit) ELSE <<value, unit>>
                element == [Value |-> out[1],
                            Year |-> this_year.label,
                            Region |-> this_region.label,
                            Type |-> this_type.label,
                            Unit |-> out[2].s,
                            TypeUnit |-> this_type.label \o " [" \o out[2].s \o "]"]
                key == region_key(this_region.label.s)
                element_id == get_region(key)
            IN  IF \/ region_rejected(args.regions_filter, this_region.label)
                   \/ ~is_observation(value)
                   \/ unit_rejected(args.units_filter, unit)
                THEN /\ region' = region + 1
                     /\ UNCHANGED <<year, pc, data_frame, origin, lookups, outcome>>
                ELSE IF wikidata /\ this_region.label.t # "str"
                THEN \* line 174: only a str has startswith()
                     /\ pc' = "done"
                     /\ outcome' = [status |-> "raised", value |-> <<>>]
                     /\ UNCHANGED <<year, region, data_frame, origin, lookups>>
                ELSE /\ data_frame' = Append(data_frame,
                            IF wikidata
                            THEN get_item(element_id.found, element_id.id,
                                          args.wikidata_name, args.wikidata_id,
                                          args.wikidata_properties)
                                 @@ ("WikidataType" :>
                                        (IF element_id.found THEN PyStr(element_id.type) ELSE None))
                                 @@ element
                            ELSE element)
                     /\ origin' = Append(origin,
                            [sheet |-> this_type.index, row |-> this_region.index,
                             column |-> this_year.index])
                     /\ lookups' = IF wikidata THEN Append(lookups, key) ELSE lookups
                     /\ region' = region + 1
                     /\ UNCHANGED <<year, pc, outcome>>
    /\ UNCHANGED <<xlsx, args, columns, wikidata, type_>>
    /\ UNCHANGED meta_vars

\* Line 189.
datasource_return ==
    /\ pc = "ds_type"
    /\ type_ > Len(metadata)
    /\ pc' = "done"
    /\ outcome' = [status |-> "returned", value |-> data_frame]
    /\ UNCHANGED <<xlsx, args, columns, wikidata, type_, year, region, data_frame, origin, lookups>>
    /\ UNCHANGED meta_vars

Next ==
    \/ metadata_for
    \/ year_scan
    \/ region_scan
    \/ metadata_append
    \/ metadata_return
    \/ datasource_begin
    \/ datasource_type
    \/ datasource_year
    \/ datasource_region
    \/ datasource_return

(***************************************************************************)
(* Initial states: a workbook, a call, and the call not yet begun.  Each   *)
(* specification below draws the workbook and the arguments from one       *)
(* family; the steps are the same.                                         *)
(***************************************************************************)
Begin(book, a) ==
    /\ xlsx = book
    /\ args = a
    /\ pc = IF a.op = "datasource" THEN "ds_begin" ELSE "for_sheet"
    /\ outcome = [status |-> "running", value |-> <<>>]
    /\ metadata = <<>>
    /\ type_index = 0
    /\ type_value = ""
    /\ years = <<>>
    /\ regions = <<>>
    /\ index = 0
    /\ nb_empty_cells = 0
    /\ columns = <<>>
    /\ wikidata = FALSE
    /\ type_ = 1
    /\ year = 1
    /\ region = 1
    /\ data_frame = <<>>
    /\ origin = <<>>
    /\ lookups = <<>>

\* The defaults of datasource()'s signature (lines 98-107).
Defaults(op) ==
    [op |-> op,
     types_filter |-> NoFilter, regions_filter |-> NoFilter, units_filter |-> NoFilter,
     years_filter |-> NoFilter, years_factor |-> [is_none |-> TRUE, n |-> 0],
     coherent_units |-> TRUE,
     wikidata_id |-> FALSE, wikidata_type |-> FALSE, wikidata_name |-> FALSE,
     wikidata_properties |-> <<>>]
Factor(k) == [is_none |-> FALSE, n |-> k]
Ops == {"metadata", "datasource"}

Growth == PyStr("Growth rate per annum")

\* Region family: one sheet whose region column is any pattern of labelled
\* and empty rows.
RegionBooks ==
    { << MkSheet("Oil - EJ", PyStr("Exajoules"),
                 <<None, None, Growth>>, <<PyInt(2000), PyInt(2001)>>,
                 rl, [r \in 1..RegionRows |-> <<PyInt(r), PyFloat(r)>>]) >> :
      rl \in [1..RegionRows -> {None, PyStr("World")}] }
InitRegions == \E book \in RegionBooks, op \in Ops : Begin(book, Defaults(op))
SpecRegions == InitRegions /\ [][Next]_vars

\* Year family: one sheet whose marker row is any pattern of markers and
\* whose label row holds years, gaps and (at the probe) text.
YearBooks ==
    { << MkSheet("Gas", PyStr("Billion cubic metres"), mk,
                 [c \in 1..YearCols |->
                     IF c = 1 THEN (IF probe THEN PyInt(1965) ELSE PyStr("Notes"))
                     ELSE IF c \in gaps THEN None ELSE PyInt(1964 + c)],
                 <<PyStr("World"), PyStr("Total Europe")>>,
                 [r \in 1..2 |-> [c \in 1..YearCols |-> PyInt(10 * r + c)]]) >> :
      mk \in [1..YearCols -> {None, Growth}],
      probe \in BOOLEAN,
      gaps \in SUBSET (2..YearCols) }
InitYears == \E book \in YearBooks, op \in Ops : Begin(book, Defaults(op))
SpecYears == InitYears /\ [][Next]_vars
\* The call is one thread that runs until it returns or raises.
FairSpecYears == SpecYears /\ WF_vars(Next)

\* Unit family: one sheet in any of the declared units, some with stray
\* whitespace around the text, read with and without coherent units.
UnitTexts ==
    {"Terawatt-hours", "Exajoules", "Exajoules (input-equivalent)",
     "Exajoules (input-equivalent)*", "Petajoules", "Million tonnes",
     "Terawatt-hours ", " Exajoules"}
UnitBooks ==
    { << MkSheet("Electricity - TWh", PyStr(u),
                 <<None, None, Growth>>, <<PyInt(1985), PyInt(1990)>>,
                 <<PyStr("World"), PyStr("Total Europe")>>,
                 << <<a, b>>, <<PyInt(10), None>> >>) >> :
      u \in UnitTexts,
      a \in {PyInt(10), PyFloat(25), PyStr("n/a")},
      b \in {PyInt(3), PyStr("-")} }
UnitArgs ==
    { [Defaults("datasource") EXCEPT !.coherent_units = co, !.units_filter = uf] :
      co \in BOOLEAN,
      uf \in {NoFilter, Filter(<<PyStr("Petajoules")>>),
              Filter(<<PyStr("Terawatt-hours"), PyStr("Exajoules")>>)} }
    \cup {Defaults("metadata")}
InitUnits == \E book \in UnitBooks, a \in UnitArgs : Begin(book, a)
SpecUnits == InitUnits /\ [][Next]_vars

\* Filter family: two sheets, one in Terawatt-hours and one in Petajoules,
\* whose last year label is a year, empty or text, read under every
\* combination of the five filters.
FilterBooks ==
    { << MkSheet("Electricity - TWh", PyStr("Terawatt-hours"),
                 <<None, None, None, Growth>>, <<PyInt(1965), PyInt(1970), last>>,
                 <<PyStr("World"), PyStr("Total Europe")>>,
                 << <<PyInt(1), PyInt(2), PyInt(3)>>, <<PyInt(4), None, PyInt(6)>> >>),
         MkSheet("Oil - PJ", PyStr("Petajoules"),
                 <<None, None, Growth>>, <<PyInt(1965), PyInt(1971)>>,
                 <<PyStr("World"), PyStr("Total Europe")>>,
                 << <<PyInt(7), PyFloat(85)>>, <<PyStr("n/a"), PyInt(9)>> >>) >> :
      last \in {PyInt(1975), None, PyStr("2035e"), PyStr("%d")} }
FilterArgs ==
    { [Defaults("datasource") EXCEPT
          !.types_filter = tf, !.regions_filter = rf, !.units_filter = uf,
          !.years_filter = yf, !.years_factor = fa, !.coherent_units = co] :
      tf \in {NoFilter, Filter(<<PyStr("Oil")>>),
              Filter(<<PyStr("Oil - PJ"), PyStr("Electricity")>>)},
      rf \in {NoFilter, Filter(<<PyStr("World")>>), Filter(<<PyStr("Europe")>>)},
      uf \in {NoFilter, Filter(<<PyStr("Petajoules")>>), Filter(<<PyStr("Terawatt-hours")>>)},
      yf \in {NoFilter, Filter(<<PyInt(1965), PyInt(1970), PyInt(1971)>>),
              Filter(<<PyStr("1965"), None>>)},
      fa \in {[is_none |-> TRUE, n |-> 0], Factor(5), Factor(2)},
      co \in BOOLEAN }
    \cup {Defaults("metadata")}
InitFilters == \E book \in FilterBooks, a \in FilterArgs : Begin(book, a)
SpecFilters == InitFilters /\ [][Next]_vars

\* Cell family: a cover sheet and one data sheet whose block of two year
\* columns holds, cell by cell, an int, a float, text or nothing.
CellBooks ==
    { << MkSheet("Contents", PyStr("Statistical Review"), <<>>, <<PyStr("Contents")>>,
                 <<>>, <<>>),
         MkSheet("Coal - EJ", PyStr("Exajoules"),
                 <<None, None, Growth>>, <<PyInt(2000), PyInt(2001)>>,
                 [r \in 1..BlockRows |-> IF r = 1 THEN PyStr("World") ELSE PyStr("Total Europe")],
                 block) >> :
      block \in [1..BlockRows ->
                    [1..2 -> {PyInt(7), PyFloat(25), PyStr("n/a"), None}]] }
CellArgs ==
    {Defaults("datasource"), [Defaults("datasource") EXCEPT !.wikidata_id = TRUE],
     Defaults("metadata")}
InitCells == \E book \in CellBooks, a \in CellArgs : Begin(book, a)
SpecCells == InitCells /\ [][Next]_vars

\* Sheet family: every workbook of NumSheets sheets, each a data sheet, a
\* cover sheet or a data sheet without its unit cell.
DataSheet ==
    MkSheet("Oil - EJ", PyStr("Exajoules"), <<None, Growth>>, <<PyInt(1965)>>,
            <<PyStr("World")>>, << <<PyInt(1)>> >>)
CoverSheet ==
    MkSheet("Contents", None, <<>>, <<PyStr("Contents")>>, <<>>, <<>>)
NoUnitSheet ==
    MkSheet("Coal", None, <<None, Growth>>, <<PyInt(1965)>>,
            <<PyStr("World")>>, << <<PyInt(2)>> >>)
SheetBooks == [1..NumSheets -> {DataSheet, CoverSheet, NoUnitSheet}]
SheetArgs ==
    {Defaults("metadata"), Defaults("datasource"),
     [Defaults("datasource") EXCEPT !.types_filter = Filter(<<PyStr("Oil")>>)],
     [Defaults("datasource") EXCEPT !.types_filter = Filter(<<>>),
                                    !.units_filter = Filter(<<PyStr("Exajoules")>>),
                                    !.years_factor = Factor(5)]}
InitSheets == \E book \in SheetBooks, a \in SheetArgs : Begin(book, a)
SpecSheets == InitSheets /\ [][Next]_vars

\* Wikidata family: one sheet, read under every combination of the four
\* Wikidata options.
WikidataBook ==
    << MkSheet("Gas", PyStr("Billion cubic metres"),
               <<None, None, Growth>>, <<PyInt(2010), PyInt(2011)>>,
               <<PyStr("World"), PyStr("Total Europe"), PyStr("Atlantis")>>,
               << <<PyInt(1), PyInt(2)>>, <<PyInt(3), None>>, <<PyFloat(45), PyInt(6)>> >>) >>
WikidataArgs ==
    { [Defaults("datasource") EXCEPT
          !.wikidata_id = wi, !.wikidata_type = wt, !.wikidata_name = wn,
          !.wikidata_properties = wp] :
      wi \in BOOLEAN, wt \in BOOLEAN, wn \in BOOLEAN, wp \in {<<>>, <<"P1082">>} }
    \cup {Defaults("metadata")}
InitWikidata == \E a \in WikidataArgs : Begin(WikidataBook, a)
SpecWikidata == InitWikidata /\ [][Next]_vars

(***************************************************************************)
(* Properties.                                                             *)
(***************************************************************************)
GridRows(ws) == {rc[1] : rc \in DOMAIN ws.cells}
GridCols(ws) == {rc[2] : rc \in DOMAIN ws.cells}
Indexes(axis) == [i \in 1..Len(axis) |-> axis[i].index]
Terminated == pc = "done"

\* Rows a..b of the region column are all empty.
EmptyRun(ws, a, b) == \A k \in a..b : ~has_label(cell(ws, k, 1))
\* The labelled rows r >= 5 with no run of 6 empty rows within rows 5..r.
RowsBeforeRunOfSix(ws) ==
    {r \in GridRows(ws) :
        /\ r >= 5
        /\ has_label(cell(ws, r, 1))
        /\ ~\E a \in 5..(r - 6) : EmptyRun(ws, a, a + 5)}
\* axis lists exactly `rows`, top to bottom, each with its label.
RegionAxisIs(ws, axis, rows) ==
    /\ {axis[i].index : i \in 1..Len(axis)} = rows
    /\ \A i \in 1..Len(axis) :
          /\ axis[i].label = cell(ws, axis[i].index, 1)
          /\ i > 1 => axis[i - 1].index < axis[i].index

\* C1: when the region scan of a sheet ends, the region axis is exactly the
\* labelled rows from row 5 down that no run of 6 or more empty rows
\* precedes: runs of 1 to 5 empty rows, leading or between labels, are
\* passed over.
C1_RegionAxisToleratesFive ==
    pc = "append" => RegionAxisIs(worksheet, regions, RowsBeforeRunOfSix(worksheet))

\* The columns from 2 on whose row-2 cell is not empty.
MarkerCols(ws) == {c \in GridCols(ws) : c >= 2 /\ cell(ws, 2, c) # None}
MetadataReturned == args.op = "metadata" /\ outcome.status = "returned"

\* C2 as stated: a qualifying sheet with markers only at columns 2 and 5
\* has the year axis {2, 3, 4}.
C2_MarkersAtTwoAndFive ==
    (MetadataReturned /\ qualifies(xlsx[1]) /\ MarkerCols(xlsx[1]) = {2, 5})
        => Indexes(outcome.value[1].years) = <<2, 3, 4>>

\* C2, amended: a qualifying sheet whose marker cells at columns 2 to 5 are
\* non-empty only at column 5 has the year axis {2, 3, 4}: the scan stops
\* before column 5.
C2_StopBeforeMarker ==
    (MetadataReturned /\ qualifies(xlsx[1]) /\ MarkerCols(xlsx[1]) \cap (2..5) = {5})
        => Indexes(outcome.value[1].years) = <<2, 3, 4>>
C2_Witness ==
    /\ MetadataReturned
    /\ qualifies(xlsx[1])
    /\ MarkerCols(xlsx[1]) \cap (2..5) = {5}
    /\ Len(outcome.value) = 1

\* The year entries of columns a..b, left to right, each with its row-3 value.
YearEntries(ws, a, b) ==
    [i \in 1..(IF b >= a THEN b - a + 1 ELSE 0) |->
        [label |-> cell(ws, 3, a + i - 1), index |-> a + i - 1]]
HasMarker(ws) == MarkerCols(ws) # {}
LeastMarker(ws) == CHOOSE c \in MarkerCols(ws) : \A d \in MarkerCols(ws) : c <= d
\* The scan while it runs has taken every column before index and met no
\* marker; once over, it stands at the least marked column; on a sheet
\* without a marker it is never over.
C3_ScanState ==
    /\ pc = "years" =>
          /\ \A c \in 2..(index - 1) : c \notin MarkerCols(worksheet)
          /\ years = YearEntries(worksheet, 2, index - 1)
    /\ pc \in {"regions", "append"} =>
          /\ HasMarker(worksheet)
          /\ years = YearEntries(worksheet, 2, LeastMarker(worksheet) - 1)
    /\ (qualifies(xlsx[1]) /\ ~HasMarker(xlsx[1])) =>
          /\ pc \in {"ds_begin", "for_sheet", "years"}
          /\ outcome.status = "running"
    /\ (MetadataReturned /\ qualifies(xlsx[1])) =>
          outcome.value[1].years = YearEntries(xlsx[1], 2, LeastMarker(xlsx[1]) - 1)

\* C3: the year scan ends only by the marker condition.  It ends if and
\* only if some column c >= 2 has a non-empty row-2 cell, and then the axis
\* is the columns 2..c-1 for the least such c, each with its row-3 value,
\* empty or not; without such a column the scan goes on for ever.
C3_YearScanEndsOnlyAtMarker ==
    /\ []C3_ScanState
    /\ (pc = "years" /\ HasMarker(worksheet)) ~> (pc # "years")
C3_Witness ==
    /\ pc = "regions"
    /\ Len(years) >= 2
    /\ \E i \in 1..Len(years) : years[i].label = None

Rows == 1..Len(data_frame)
\* The cell a row was read from, and the unit cell of its sheet.
RowCell(i) == cell(xlsx[origin[i].sheet + 1], origin[i].row, origin[i].column)
RowUnitCell(i) == cell(xlsx[origin[i].sheet + 1], 3, 1)
DatasourceReturned == args.op = "datasource" /\ outcome.status = "returned"

\* C4: with coherent_units, a row's (Value, Unit) is the cell's value v and
\* the unit cell's text u converted once: Terawatt-hours to (3.6 v,
\* Petajoules), Exajoules to (1000 v, Petajoules), Exajoules
\* (input-equivalent) to (1000 v, Petajoules (input-equivalent)); every other
\* unit, and every unit without coherent_units, gives (v, u).
C4_UnitCoherence ==
    \A i \in Rows :
        LET v == RowCell(i)
            u == RowUnitCell(i).s
            row == data_frame[i]
        IN  IF args.coherent_units /\ u = "Terawatt-hours"
            THEN row.Value.n * 10 = v.n * 36 /\ row.Unit = "Petajoules"
            ELSE IF args.coherent_units /\ u = "Exajoules"
            THEN row.Value.n = v.n * 1000 /\ row.Unit = "Petajoules"
            ELSE IF args.coherent_units /\ u = "Exajoules (input-equivalent)"
            THEN row.Value.n = v.n * 1000 /\ row.Unit = "Petajoules (input-equivalent)"
            ELSE row.Value = v /\ row.Unit = u
\* 10 Terawatt-hours came out as 36 Petajoules.
C4_Witness ==
    \E i \in Rows :
        /\ args.coherent_units
        /\ RowUnitCell(i) = PyStr("Terawatt-hours")
        /\ RowCell(i) = PyInt(10)
        /\ data_frame[i].Value.n = 3600
        /\ data_frame[i].Unit = "Petajoules"

\* C5: every row passes every filter given: its Type, Region and Year are
\* in their lists, its Year is a multiple of years_factor, and the unit cell
\* of its sheet, as read before conversion, is in units_filter; so a
\* units_filter of ["Petajoules"] gives no row of a Terawatt-hours sheet.
C5_FiltersCompose ==
    \A i \in Rows :
        LET row == data_frame[i]
        IN  /\ args.types_filter.is_none \/ PyIn(PyStr(row.Type), args.types_filter.items)
            /\ args.regions_filter.is_none \/ PyIn(row.Region, args.regions_filter.items)
            /\ args.years_filter.is_none \/ PyIn(row.Year, args.years_filter.items)
            /\ args.years_factor.is_none
               \/ (IsNumber(row.Year) /\ row.Year.n % (100 * args.years_factor.n) = 0)
            /\ args.units_filter.is_none \/ PyIn(RowUnitCell(i), args.units_filter.items)
            /\ args.units_filter = Filter(<<PyStr("Petajoules")>>)
                  => RowUnitCell(i) # PyStr("Terawatt-hours")
\* A row came out under all five filters at once.
C5_Witness ==
    /\ Len(data_frame) > 0
    /\ ~args.types_filter.is_none
    /\ ~args.regions_filter.is_none
    /\ ~args.years_filter.is_none
    /\ ~args.years_factor.is_none
    /\ ~args.units_filter.is_none
    /\ args.coherent_units

\* The (year entry, region entry) pairs of a sheet's record whose cell holds
\* a number, and the rows that came from the sheet.
NumericPairs(m) ==
    {p \in (1..Len(m.years)) \X (1..Len(m.regions)) :
        cell(xlsx[m.index + 1], m.regions[p[2]].index, m.years[p[1]].index).t
            \in {"int", "float"}}
RowsOf(m) == {i \in Rows : origin[i].sheet = m.index}
RowsAt(m, p) ==
    {i \in RowsOf(m) :
        origin[i].row = m.regions[p[2]].index /\ origin[i].column = m.years[p[1]].index}

\* C6: without filters, the table returned holds, for each sheet's record,
\* exactly one row for each (year, region) pair whose cell is numeric and
\* none for any other pair: at most Y x R rows, and Y x R exactly when every
\* cell of the block is numeric.
C6_OneRowPerNumericCell ==
    (DatasourceReturned /\ args.types_filter.is_none /\ args.regions_filter.is_none
        /\ args.units_filter.is_none /\ args.years_filter.is_none
        /\ args.years_factor.is_none)
    => /\ outcome.value = data_frame
       /\ Len(origin) = Len(data_frame)
       /\ \A i \in Rows : \E k \in 1..Len(metadata) : origin[i].sheet = metadata[k].index
       /\ \A k \in 1..Len(metadata) :
             LET m == metadata[k]
                 all == (1..Len(m.years)) \X (1..Len(m.regions))
             IN  /\ \A p \in all :
                       Cardinality(RowsAt(m, p)) = IF p \in NumericPairs(m) THEN 1 ELSE 0
                 /\ RowsOf(m) = UNION {RowsAt(m, p) : p \in all}
                 /\ Cardinality(RowsOf(m)) <= Len(m.years) * Len(m.regions)
                 /\ Cardinality(RowsOf(m)) = Len(m.years) * Len(m.regions)
                        <=> NumericPairs(m) = all
\* A table came back with rows, and fewer than Y x R of them.
C6_Witness ==
    /\ DatasourceReturned
    /\ Len(metadata) = 1
    /\ Len(data_frame) > 0
    /\ Len(data_frame) < Len(metadata[1].years) * Len(metadata[1].regions)

\* Some sheet passes the probe and has an empty unit cell.
Malformed == \E k \in 1..Len(xlsx) : cell(xlsx[k], 3, 2).t = "int" /\ cell(xlsx[k], 3, 1) = None

\* C7: on a workbook with a sheet that qualifies and has no unit, a call
\* that ends ends by raising: metadata() gives no list, whole or partial,
\* and datasource() gives no table and has built no row, whatever its
\* filters.
C7_MalformedSheetAborts ==
    Malformed =>
        /\ outcome.status # "returned"
        /\ outcome.value = <<>>
        /\ Terminated => outcome.status = "raised"
        /\ data_frame = <<>>
\* datasource() raised with a record already in the list and a type filter
\* that leaves the malformed sheet out.
C7_Witness ==
    /\ Malformed
    /\ Terminated
    /\ outcome.status = "raised"
    /\ args.op = "datasource"
    /\ args.types_filter = Filter(<<PyStr("Oil")>>)
    /\ Len(metadata) >= 1

\* Every qualifying sheet has a text in its unit cell.
UnitsReadable ==
    \A k \in 1..Len(xlsx) : cell(xlsx[k], 3, 2).t = "int" => cell(xlsx[k], 3, 1).t = "str"

\* C8: on a workbook whose metadata can be read, datasource() with any
\* filters and a positive years_factor (or none) ends by returning its
\* table.
C8_FiltersNeverRaise ==
    (args.op = "datasource" /\ Terminated /\ UnitsReadable
        /\ (args.years_factor.is_none \/ args.years_factor.n > 0))
    => outcome.status = "returned"

\* One of the four Wikidata options is asked for.
WikidataRequested ==
    \/ args.wikidata_id
    \/ args.wikidata_name
    \/ args.wikidata_type
    \/ args.wikidata_properties # <<>>

\* C9: the table returned has one region lookup per row and the requested
\* Wikidata fields in every row when any of the four options is asked for,
\* and no lookup and no Wikidata field when none is.
C9_JoinWhenRequested ==
    DatasourceReturned =>
        IF WikidataRequested
        THEN /\ Len(lookups) = Len(data_frame)
             /\ \A i \in Rows :
                   /\ args.wikidata_id => "WikidataId" \in DOMAIN data_frame[i]
                   /\ args.wikidata_name => "WikidataName" \in DOMAIN data_frame[i]
                   /\ args.wikidata_type => "WikidataType" \in DOMAIN data_frame[i]
                   /\ \A j \in 1..Len(args.wikidata_properties) :
                         property_column(args.wikidata_properties[j]) \in DOMAIN data_frame[i]
        ELSE /\ lookups = <<>>
             /\ \A i \in Rows :
                   DOMAIN data_frame[i] = {"Value", "Type", "Unit", "TypeUnit", "Year", "Region"}

\* The unit metadata() reports for the sheet a row came from.
MetadataUnit(i) ==
    LET k == CHOOSE j \in 1..Len(metadata) : metadata[j].index = origin[i].sheet
    IN  PyStr(metadata[k].unit)

\* C10: the unit datasource() works with for a sheet is the unit metadata()
\* reports for it (the unit cell's text, trimmed): every row's sheet passed
\* units_filter with that unit and the row is that unit's conversion (or the
\* unit itself); and a units_filter holding a sheet's metadata unit selects
\* all of the sheet's numeric cells.
C10_UnitAgreement ==
    /\ \A i \in Rows :
          LET mu == MetadataUnit(i)
              v == RowCell(i)
              row == data_frame[i]
              out == IF args.coherent_units THEN coherent(v, mu) ELSE <<v, mu>>
          IN  /\ args.units_filter.is_none \/ PyIn(mu, args.units_filter.items)
              /\ row.Value = out[1]
              /\ row.Unit = out[2].s
    /\ DatasourceReturned =>
          \A k \in 1..Len(metadata) :
              (args.units_filter.is_none
                  \/ PyIn(PyStr(metadata[k].unit), args.units_filter.items))
              => Cardinality(RowsOf(metadata[k])) = Cardinality(NumericPairs(metadata[k]))

====
